---- MODULE Spec2Model ----
(***************************************************************************)
(* The viewer.teams router (src/unnamed/part_000): the request handlers    *)
(* that manage teams and memberships on top of the relational store.       *)
(*                                                                         *)
(* The store is three tables (teams, memberships, users).  A request is    *)
(* one atomic step from an idle state: the handler runs against the store  *)
(* and leaves its outcome in `last`, with the store as it was before the   *)
(* call in `pre`.  Respond hands the outcome to the caller and returns to  *)
(* idle.  The billing library, the e-mail sender and the Close.com sync    *)
(* touch none of the three tables as far as this file shows; the model is  *)
(* of a self-hosted deployment (HOSTED_CAL_FEATURES and STRIPE_PRIVATE_KEY *)
(* unset).  getTeamSeats and ensureSubscriptionQuantityCorrectness only    *)
(* hand their input to the billing library and are left out.               *)
(*                                                                         *)
(* SpecRace looks inside removeMember: its requests run one database query *)
(* at a time (`inflight` holds each request's position and what it has     *)
(* read so far), interleaved with each other, on teams that create and     *)
(* inviteMember have set up: nothing in the handler locks or opens a       *)
(* transaction.                                                            *)
(***************************************************************************)
EXTENDS Integers, FiniteSets, Sequences, TLC

VARIABLES teams, memberships, users, nextTeamId, last, pre, calls, inflight

vars == <<teams, memberships, users, nextTeamId, last, pre, calls, inflight>>

\* ------------------------------------------------------------------ bounds
\* Users registered before the first call.
NumUsers == 1
\* Teams ever created (team ids are never reused).
MaxTeams == 2
\* Endpoint calls in one run.
MaxCalls == 4
\* removeMember requests run query by query in one run of SpecRace.
MaxRequests == 2

\* ------------------------------------------------------------- vocabulary
OWNER == "OWNER"
ADMIN == "ADMIN"
MEMBER == "MEMBER"
MembershipRole == {MEMBER, ADMIN, OWNER}

OK == "OK"
UNAUTHORIZED == "UNAUTHORIZED"
FORBIDDEN == "FORBIDDEN"
NOT_FOUND == "NOT_FOUND"
BAD_REQUEST == "BAD_REQUEST"
\* An exception that is no TRPCError (a Prisma "record not found").
INTERNAL_SERVER_ERROR == "INTERNAL_SERVER_ERROR"
CodedFailures == {UNAUTHORIZED, FORBIDDEN, NOT_FOUND, BAD_REQUEST}

HOSTED_CAL_FEATURES == FALSE

\* An optional value (undefined / null) is a sequence of length 0 or 1.
None == <<>>
Some(v) == <<v>>

\* --------------------------------------------------------------- the users
UsernameOf(i) ==
  CASE i = 1 -> "alice" [] i = 2 -> "bob" [] i = 3 -> "carol" [] OTHER -> "erin"

EmailOf(i) ==
  CASE i = 1 -> "alice@cal.test" [] i = 2 -> "bob@cal.test"
    [] i = 3 -> "carol@cal.test" [] OTHER -> "erin@cal.test"

PlanOf(i) == IF i % 2 = 1 THEN "PRO" ELSE "FREE"

RegisteredUsers ==
  {[id |-> i, username |-> Some(UsernameOf(i)), email |-> EmailOf(i), plan |-> PlanOf(i)] :
     i \in 1..NumUsers}

\* Addresses of people with no account yet.
NewEmails == {"dave@cal.test"}
\* What a request may give as usernameOrEmail.
InviteStrings ==
  {UsernameOf(i) : i \in 1..NumUsers} \cup {EmailOf(1)} \cup NewEmails \cup {"nobody"}

\* /^[^\s@]+@[^\s@]+\.[^\s@]+$/ on the strings above.
isEmail(str) == str \in {EmailOf(i) : i \in 1..4} \cup NewEmails

\* The plan column's default is set by the schema: FREE or not is what create reads.
DefaultPlans == {"FREE", "TRIAL"}

UserIds == 1..(NumUsers + Cardinality(NewEmails))
TeamIds == 1..MaxTeams

\* ---------------------------------------------------------------- slugify
Names == {"Acme", "acme", "Beta"}

slugify(str) ==
  CASE str = "Acme" -> "acme" [] str = "Beta" -> "beta" [] OTHER -> str

\* ------------------------------------------------------- store primitives
Store == [teams |-> teams, memberships |-> memberships, users |-> users]
NoStore == [teams |-> {}, memberships |-> {}, users |-> {}]
NoCall == [op |-> "none", caller |-> 0, input |-> [none |-> TRUE], result |-> "none"]

Idle == last.op = "none"

\* The removeMember requests that run query by query.
Requests == 1..MaxRequests
FreeRequest ==
  [pc |-> "free", caller |-> 0, teamId |-> 0, memberId |-> 0, isAdmin |-> FALSE,
   result |-> "none"]

\* prisma.membership rows with the composite key (userId, teamId).
membershipOf(ms, userId, teamId) == {m \in ms : m.userId = userId /\ m.teamId = teamId}

\* prisma.membership.create: the key is unique (P2002 otherwise).
membershipCreate(ms, row) ==
  IF membershipOf(ms, row.userId, row.teamId) # {} THEN ms ELSE ms \cup {row}

NewMembership(userId, teamId, role, accepted) ==
  [userId |-> userId, teamId |-> teamId, role |-> role, accepted |-> accepted,
   disableImpersonation |-> FALSE]

\* The imported role tests: the role of the user's membership row in the
\* team, whether or not the invitation has been accepted.
isTeamAdmin(userId, teamId) ==
  \E m \in membershipOf(memberships, userId, teamId) : m.role \in {ADMIN, OWNER}

isTeamOwner(userId, teamId) ==
  \E m \in membershipOf(memberships, userId, teamId) : m.role = OWNER

isTeamMember(userId, teamId) == membershipOf(memberships, userId, teamId) # {}

\* ------------------------------------------------------ a call's outcome
Reply(op, caller, input, code, t2, m2, u2) ==
  /\ teams' = t2
  /\ memberships' = m2
  /\ users' = u2
  /\ last' = [op |-> op, caller |-> caller, input |-> input, result |-> code]
  /\ pre' = Store
  /\ calls' = calls + 1
  /\ UNCHANGED inflight

Throw(op, caller, input, code) ==
  Reply(op, caller, input, code, teams, memberships, users)

Caller(u) == CHOOSE x \in users : x.id = u

\* ------------------------------------------------------------- mutations
\* create with the team written before the collision check is acted on.
create_writesBeforeCheck(u, name) ==
  LET input == [name |-> name]
      slug == slugify(name)
      nameCollisions == Cardinality({t \in teams : t.name = name \/ t.slug = Some(slug)})
      createTeam == [id |-> nextTeamId, name |-> name, slug |-> Some(slug),
                     logo |-> None, bio |-> None, hideBranding |-> FALSE]
  IN  /\ nextTeamId <= MaxTeams
      /\ IF Caller(u).plan = "FREE"
           THEN Throw("create", u, input, UNAUTHORIZED) /\ UNCHANGED nextTeamId
         ELSE IF nameCollisions > 0
           THEN /\ Reply("create", u, input, BAD_REQUEST, teams \cup {createTeam},
                         memberships, users)
                /\ nextTeamId' = nextTeamId + 1
         ELSE /\ Reply("create", u, input, OK,
                       teams \cup {createTeam},
                       membershipCreate(memberships,
                                        NewMembership(u, createTeam.id, OWNER, TRUE)),
                       users)
              /\ nextTeamId' = nextTeamId + 1

create(u, name) ==
  LET input == [name |-> name]
      slug == slugify(name)
      nameCollisions == Cardinality({t \in teams : t.name = name \/ t.slug = Some(slug)})
      createTeam == [id |-> nextTeamId, name |-> name, slug |-> Some(slug),
                     logo |-> None, bio |-> None, hideBranding |-> FALSE]
  IN  /\ nextTeamId <= MaxTeams
      /\ IF Caller(u).plan = "FREE"
           THEN Throw("create", u, input, UNAUTHORIZED) /\ UNCHANGED nextTeamId
         ELSE IF nameCollisions > 0
           THEN Throw("create", u, input, BAD_REQUEST) /\ UNCHANGED nextTeamId
         ELSE /\ Reply("create", u, input, OK,
                       teams \cup {createTeam},
                       membershipCreate(memberships,
                                        NewMembership(u, createTeam.id, OWNER, TRUE)),
                       users)
              /\ nextTeamId' = nextTeamId + 1

\* What an update request may carry besides the team id.
UpdatePayloads ==
  LET none == [bio |-> None, name |-> None, logo |-> None, slug |-> None,
               hideBranding |-> None]
  IN  {[none EXCEPT !.name = Some("Beta")],
       [none EXCEPT !.slug = Some("acme")],
       [none EXCEPT !.slug = Some("")],
       [none EXCEPT !.bio = Some("We meet."), !.logo = Some("logo.png")],
       [none EXCEPT !.hideBranding = Some(TRUE)]}

\* A string the handler's `if (input.slug)` takes as given.
Truthy(opt) == opt # None /\ opt # Some("")

\* prisma.team.update: an undefined field is left as it is.
teamUpdate(t, data) ==
  [id |-> t.id,
   name |-> IF data.name = None THEN t.name ELSE data.name[1],
   slug |-> IF data.slug = None THEN t.slug ELSE data.slug,
   logo |-> IF data.logo = None THEN t.logo ELSE data.logo,
   bio |-> IF data.bio = None THEN t.bio ELSE data.bio,
   hideBranding |-> IF data.hideBranding = None THEN t.hideBranding
                    ELSE data.hideBranding[1]]

\* update guarded by isTeamMember in place of isTeamAdmin.
update_anyMember(u, input) ==
  LET userConflict == {t \in teams : t.slug = input.slug}
      prevTeam == {t \in teams : t.id = input.id}
  IN  IF ~isTeamMember(u, input.id)
        THEN Throw("update", u, input, UNAUTHORIZED) /\ UNCHANGED nextTeamId
      ELSE IF Truthy(input.slug) /\ \E t \in userConflict : t.id # input.id
        THEN Throw("update", u, input, OK) /\ UNCHANGED nextTeamId
      ELSE IF prevTeam = {}
        THEN Throw("update", u, input, INTERNAL_SERVER_ERROR) /\ UNCHANGED nextTeamId
      ELSE /\ Reply("update", u, input, OK,
                    {IF t.id = input.id THEN teamUpdate(t, input) ELSE t : t \in teams},
                    memberships, users)
           /\ UNCHANGED nextTeamId

update(u, input) ==
  LET userConflict == {t \in teams : t.slug = input.slug}
      prevTeam == {t \in teams : t.id = input.id}
  IN  IF ~isTeamAdmin(u, input.id)
        THEN Throw("update", u, input, UNAUTHORIZED) /\ UNCHANGED nextTeamId
      ELSE IF Truthy(input.slug) /\ \E t \in userConflict : t.id # input.id
        THEN Throw("update", u, input, OK) /\ UNCHANGED nextTeamId
      ELSE IF prevTeam = {}
        THEN Throw("update", u, input, INTERNAL_SERVER_ERROR) /\ UNCHANGED nextTeamId
      ELSE /\ Reply("update", u, input, OK,
                    {IF t.id = input.id THEN teamUpdate(t, input) ELSE t : t \in teams},
                    memberships, users)
           /\ UNCHANGED nextTeamId

\* delete guarded by isTeamMember in place of isTeamOwner.
delete_anyMember(u, teamId) ==
  LET input == [teamId |-> teamId]
  IN  IF ~isTeamMember(u, teamId)
        THEN Throw("delete", u, input, UNAUTHORIZED) /\ UNCHANGED nextTeamId
      ELSE /\ Reply("delete", u, input, OK,
                    {t \in teams : t.id # teamId},
                    {m \in memberships : m.teamId # teamId},
                    users)
           /\ UNCHANGED nextTeamId

delete(u, teamId) ==
  LET input == [teamId |-> teamId]
  IN  IF ~isTeamOwner(u, teamId)
        THEN Throw("delete", u, input, UNAUTHORIZED) /\ UNCHANGED nextTeamId
      ELSE /\ Reply("delete", u, input, OK,
                    {t \in teams : t.id # teamId},
                    {m \in memberships : m.teamId # teamId},
                    users)
           /\ UNCHANGED nextTeamId

\* removeMember without "Only a team owner can remove another team owner".
removeMember_adminRemovesOwner(u, teamId, memberId) ==
  LET input == [teamId |-> teamId, memberId |-> memberId]
      isAdmin == isTeamAdmin(u, teamId)
  IN  /\ UNCHANGED nextTeamId
      /\ IF ~isAdmin /\ u # memberId
           THEN Throw("removeMember", u, input, UNAUTHORIZED)
         ELSE IF u = memberId /\ isAdmin
           THEN Throw("removeMember", u, input, FORBIDDEN)
         ELSE IF membershipOf(memberships, memberId, teamId) = {}
           THEN Throw("removeMember", u, input, INTERNAL_SERVER_ERROR)
         ELSE Reply("removeMember", u, input, OK, teams,
                    memberships \ membershipOf(memberships, memberId, teamId), users)

removeMember(u, teamId, memberId) ==
  LET input == [teamId |-> teamId, memberId |-> memberId]
      isAdmin == isTeamAdmin(u, teamId)
  IN  /\ UNCHANGED nextTeamId
      /\ IF ~isAdmin /\ u # memberId
           THEN Throw("removeMember", u, input, UNAUTHORIZED)
         ELSE IF isTeamOwner(memberId, teamId) /\ ~isTeamOwner(u, teamId)
           THEN Throw("removeMember", u, input, UNAUTHORIZED)
         ELSE IF u = memberId /\ isAdmin
           THEN Throw("removeMember", u, input, FORBIDDEN)
         ELSE IF membershipOf(memberships, memberId, teamId) = {}
           THEN Throw("removeMember", u, input, INTERNAL_SERVER_ERROR)
         ELSE Reply("removeMember", u, input, OK, teams,
                    memberships \ membershipOf(memberships, memberId, teamId), users)

\* inviteMember writing the invitation over an existing membership (an upsert).
inviteMember_overwrites(u, teamId, usernameOrEmail, role) ==
  LET input == [teamId |-> teamId, usernameOrEmail |-> usernameOrEmail, role |-> role]
      team == {t \in teams : t.id = teamId}
      invitees == {x \in users : x.username = Some(usernameOrEmail)
                                   \/ x.email = usernameOrEmail}
      newUsers == {[id |-> Cardinality(users) + 1, username |-> None,
                    email |-> usernameOrEmail, plan |-> plan] : plan \in DefaultPlans}
  IN  /\ UNCHANGED nextTeamId
      /\ IF ~isTeamAdmin(u, teamId)
           THEN Throw("inviteMember", u, input, UNAUTHORIZED)
         ELSE IF role = OWNER /\ ~isTeamOwner(u, teamId)
           THEN Throw("inviteMember", u, input, UNAUTHORIZED)
         ELSE IF team = {}
           THEN Throw("inviteMember", u, input, NOT_FOUND)
         ELSE IF invitees = {}
           THEN IF ~isEmail(usernameOrEmail)
                  THEN Throw("inviteMember", u, input, NOT_FOUND)
                ELSE \E user \in newUsers :
                       Reply("inviteMember", u, input, OK, teams,
                             membershipCreate(memberships,
                                              NewMembership(user.id, teamId, role, FALSE)),
                             users \cup {user})
         ELSE \E invitee \in invitees :
                Reply("inviteMember", u, input, OK, teams,
                      (memberships \ membershipOf(memberships, invitee.id, teamId))
                        \cup {NewMembership(invitee.id, teamId, role, FALSE)},
                      users)

\* language and sendEmailInvitation only shape the e-mail.
inviteMember(u, teamId, usernameOrEmail, role) ==
  LET input == [teamId |-> teamId, usernameOrEmail |-> usernameOrEmail, role |-> role]
      team == {t \in teams : t.id = teamId}
      invitees == {x \in users : x.username = Some(usernameOrEmail)
                                   \/ x.email = usernameOrEmail}
      newUsers == {[id |-> Cardinality(users) + 1, username |-> None,
                    email |-> usernameOrEmail, plan |-> plan] : plan \in DefaultPlans}
  IN  /\ UNCHANGED nextTeamId
      /\ IF ~isTeamAdmin(u, teamId)
           THEN Throw("inviteMember", u, input, UNAUTHORIZED)
         ELSE IF role = OWNER /\ ~isTeamOwner(u, teamId)
           THEN Throw("inviteMember", u, input, UNAUTHORIZED)
         ELSE IF team = {}
           THEN Throw("inviteMember", u, input, NOT_FOUND)
         ELSE IF invitees = {}
           THEN IF ~isEmail(usernameOrEmail)
                  THEN Throw("inviteMember", u, input, NOT_FOUND)
                ELSE \E user \in newUsers :
                       Reply("inviteMember", u, input, OK, teams,
                             membershipCreate(memberships,
                                              NewMembership(user.id, teamId, role, FALSE)),
                             users \cup {user})
         ELSE \E invitee \in invitees :
                IF membershipOf(memberships, invitee.id, teamId) # {}
                  THEN Throw("inviteMember", u, input, FORBIDDEN)
                ELSE Reply("inviteMember", u, input, OK, teams,
                           membershipCreate(memberships,
                                            NewMembership(invitee.id, teamId, role, FALSE)),
                           users)

\* acceptOrLeave accepting for the whole team (no userId in the where clause).
acceptOrLeave_acceptsWholeTeam(u, teamId, accept) ==
  LET input == [teamId |-> teamId, accept |-> accept]
      mine == membershipOf(memberships, u, teamId)
  IN  /\ UNCHANGED nextTeamId
      /\ IF accept
           THEN Reply("acceptOrLeave", u, input, OK, teams,
                      {IF m.teamId = teamId THEN [m EXCEPT !.accepted = TRUE] ELSE m :
                         m \in memberships},
                      users)
         ELSE Reply("acceptOrLeave", u, input, OK, teams, memberships \ mine, users)

acceptOrLeave(u, teamId, accept) ==
  LET input == [teamId |-> teamId, accept |-> accept]
      mine == membershipOf(memberships, u, teamId)
  IN  /\ UNCHANGED nextTeamId
      /\ IF accept
           THEN IF mine = {}
                  THEN Throw("acceptOrLeave", u, input, INTERNAL_SERVER_ERROR)
                ELSE Reply("acceptOrLeave", u, input, OK, teams,
                           {IF m \in mine THEN [m EXCEPT !.accepted = TRUE] ELSE m :
                              m \in memberships},
                           users)
         ELSE Reply("acceptOrLeave", u, input, OK, teams, memberships \ mine, users)

\* changeMemberRole without "Only owners can award owner role".
changeMemberRole_anyAdminAwardsOwner(u, teamId, memberId, role) ==
  LET input == [teamId |-> teamId, memberId |-> memberId, role |-> role]
      teamMemberships == {m \in memberships : m.teamId = teamId}
      targetMembership == {m \in teamMemberships : m.userId = memberId}
      myMembership == {m \in teamMemberships : m.userId = u}
      teamHasMoreThanOneOwner == \E m \in teamMemberships : m.role = OWNER
      iAmAdmin == \E m \in myMembership : m.role = ADMIN
  IN  /\ UNCHANGED nextTeamId
      /\ IF ~isTeamAdmin(u, teamId)
           THEN Throw("changeMemberRole", u, input, UNAUTHORIZED)
         ELSE IF iAmAdmin /\ \E m \in targetMembership : m.role = OWNER
           THEN Throw("changeMemberRole", u, input, FORBIDDEN)
         ELSE IF ~teamHasMoreThanOneOwner
           THEN Throw("changeMemberRole", u, input, FORBIDDEN)
         ELSE IF iAmAdmin /\ memberId = u
           THEN Throw("changeMemberRole", u, input, FORBIDDEN)
         ELSE IF targetMembership = {}
           THEN Throw("changeMemberRole", u, input, INTERNAL_SERVER_ERROR)
         ELSE Reply("changeMemberRole", u, input, OK, teams,
                    {IF m \in targetMembership THEN [m EXCEPT !.role = role] ELSE m :
                       m \in memberships},
                    users)

changeMemberRole(u, teamId, memberId, role) ==
  LET input == [teamId |-> teamId, memberId |-> memberId, role |-> role]
      teamMemberships == {m \in memberships : m.teamId = teamId}
      targetMembership == {m \in teamMemberships : m.userId = memberId}
      myMembership == {m \in teamMemberships : m.userId = u}
      teamHasMoreThanOneOwner == \E m \in teamMemberships : m.role = OWNER
      iAmAdmin == \E m \in myMembership : m.role = ADMIN
  IN  /\ UNCHANGED nextTeamId
      /\ IF ~isTeamAdmin(u, teamId)
           THEN Throw("changeMemberRole", u, input, UNAUTHORIZED)
         ELSE IF role = OWNER /\ ~isTeamOwner(u, teamId)
           THEN Throw("changeMemberRole", u, input, UNAUTHORIZED)
         ELSE IF iAmAdmin /\ \E m \in targetMembership : m.role = OWNER
           THEN Throw("changeMemberRole", u, input, FORBIDDEN)
         ELSE IF ~teamHasMoreThanOneOwner
           THEN Throw("changeMemberRole", u, input, FORBIDDEN)
         ELSE IF iAmAdmin /\ memberId = u
           THEN Throw("changeMemberRole", u, input, FORBIDDEN)
         ELSE IF targetMembership = {}
           THEN Throw("changeMemberRole", u, input, INTERNAL_SERVER_ERROR)
         ELSE Reply("changeMemberRole", u, input, OK, teams,
                    {IF m \in targetMembership THEN [m EXCEPT !.role = role] ELSE m :
                       m \in memberships},
                    users)

updateMembership(u, teamId, memberId, disableImpersonation) ==
  LET input == [teamId |-> teamId, memberId |-> memberId,
                disableImpersonation |-> disableImpersonation]
      target == membershipOf(memberships, memberId, teamId)
  IN  /\ UNCHANGED nextTeamId
      /\ IF u # memberId
           THEN Throw("updateMembership", u, input, UNAUTHORIZED)
         ELSE IF target = {}
           THEN Throw("updateMembership", u, input, INTERNAL_SERVER_ERROR)
         ELSE Reply("updateMembership", u, input, OK, teams,
                    {IF m \in target
                       THEN [m EXCEPT !.disableImpersonation = disableImpersonation]
                       ELSE m : m \in memberships},
                    users)

upgradeTeam(u, teamId) ==
  /\ ~HOSTED_CAL_FEATURES
  /\ Throw("upgradeTeam", u, [teamId |-> teamId], FORBIDDEN)
  /\ UNCHANGED nextTeamId

\* ---------------------------------------------------------------- queries
\* getTeamWithMembers(teamId)?.members holds the caller or not.
get(u, teamId) ==
  /\ UNCHANGED nextTeamId
  /\ IF membershipOf(memberships, u, teamId) = {}
       THEN Throw("get", u, [teamId |-> teamId], UNAUTHORIZED)
     ELSE Throw("get", u, [teamId |-> teamId], OK)

list(u) ==
  /\ UNCHANGED nextTeamId
  /\ Throw("list", u, [userId |-> u], OK)

getMemberAvailability(u, teamId, memberId) ==
  LET input == [teamId |-> teamId, memberId |-> memberId]
      member == membershipOf(memberships, memberId, teamId)
  IN  /\ UNCHANGED nextTeamId
      /\ IF ~isTeamMember(u, teamId)
           THEN Throw("getMemberAvailability", u, input, UNAUTHORIZED)
         ELSE IF member = {}
           THEN Throw("getMemberAvailability", u, input, NOT_FOUND)
         ELSE IF Caller(memberId).username = None
           THEN Throw("getMemberAvailability", u, input, BAD_REQUEST)
         ELSE Throw("getMemberAvailability", u, input, OK)

getMembershipbyUser(u, teamId, memberId) ==
  LET input == [teamId |-> teamId, memberId |-> memberId]
  IN  /\ UNCHANGED nextTeamId
      /\ IF u # memberId
           THEN Throw("getMembershipbyUser", u, input, UNAUTHORIZED)
         ELSE Throw("getMembershipbyUser", u, input, OK)

Init ==
  /\ teams = {}
  /\ memberships = {}
  /\ users = RegisteredUsers
  /\ nextTeamId = 1
  /\ last = NoCall
  /\ pre = NoStore
  /\ calls = 0
  /\ inflight = [r \in Requests |-> FreeRequest]

Respond ==
  /\ ~Idle
  /\ last' = NoCall
  /\ pre' = NoStore
  /\ UNCHANGED <<teams, memberships, users, nextTeamId, calls, inflight>>

\* A signed-in user starts a request when none is being answered.
CanCall(u) ==
  /\ Idle
  /\ calls < MaxCalls
  /\ \E x \in users : x.id = u

Next ==
  \/ \E u \in UserIds, name \in Names : CanCall(u) /\ create(u, name)
  \/ \E u \in UserIds, id \in TeamIds, data \in UpdatePayloads :
       CanCall(u) /\ update(u, [id |-> id, bio |-> data.bio, name |-> data.name,
                                logo |-> data.logo, slug |-> data.slug,
                                hideBranding |-> data.hideBranding])
  \/ \E u \in UserIds, teamId \in TeamIds : CanCall(u) /\ delete(u, teamId)
  \/ \E u \in UserIds, teamId \in TeamIds, memberId \in UserIds :
       CanCall(u) /\ removeMember(u, teamId, memberId)
  \/ \E u \in UserIds, teamId \in TeamIds, str \in InviteStrings, role \in MembershipRole :
       CanCall(u) /\ inviteMember(u, teamId, str, role)
  \/ \E u \in UserIds, teamId \in TeamIds, accept \in BOOLEAN :
       CanCall(u) /\ acceptOrLeave(u, teamId, accept)
  \/ \E u \in UserIds, teamId \in TeamIds, memberId \in UserIds, role \in MembershipRole :
       CanCall(u) /\ changeMemberRole(u, teamId, memberId, role)
  \/ \E u \in UserIds, teamId \in TeamIds, memberId \in UserIds, flag \in BOOLEAN :
       CanCall(u) /\ updateMembership(u, teamId, memberId, flag)
  \/ \E u \in UserIds, teamId \in TeamIds : CanCall(u) /\ upgradeTeam(u, teamId)
  \/ \E u \in UserIds, teamId \in TeamIds : CanCall(u) /\ get(u, teamId)
  \/ \E u \in UserIds : CanCall(u) /\ list(u)
  \/ \E u \in UserIds, teamId \in TeamIds, memberId \in UserIds :
       CanCall(u) /\ getMemberAvailability(u, teamId, memberId)
  \/ \E u \in UserIds, teamId \in TeamIds, memberId \in UserIds :
       CanCall(u) /\ getMembershipbyUser(u, teamId, memberId)
  \/ Respond

Spec == Init /\ [][Next]_vars

\* ------------------------------------------- removeMember, query by query
\* A request starts once the calls before it are answered (Idle).
\* The request ends with `code`.
rmDone(r, code) ==
  inflight' = [inflight EXCEPT ![r].pc = "done", ![r].result = code]

\* After the ownership queries: the self-removal test, then on to the delete.
rmSelfCheck(r) ==
  IF inflight[r].caller = inflight[r].memberId /\ inflight[r].isAdmin
    THEN rmDone(r, FORBIDDEN)
  ELSE inflight' = [inflight EXCEPT ![r].pc = "delete"]

\* The request arrives and runs its first query, isTeamAdmin(caller).
rmIsTeamAdmin(r, u, teamId, memberId) ==
  LET isAdmin == isTeamAdmin(u, teamId)
      req == [pc |-> "isTeamOwnerMember", caller |-> u, teamId |-> teamId,
              memberId |-> memberId, isAdmin |-> isAdmin, result |-> "none"]
  IN  /\ Idle
      /\ inflight[r].pc = "free"
      /\ \A q \in Requests : q < r => inflight[q].pc # "free"
      /\ \E x \in users : x.id = u
      /\ IF ~isAdmin /\ u # memberId
           THEN inflight' = [inflight EXCEPT ![r] =
                               [req EXCEPT !.pc = "done", !.result = UNAUTHORIZED]]
         ELSE inflight' = [inflight EXCEPT ![r] = req]
      /\ UNCHANGED <<teams, memberships, users, nextTeamId, last, pre, calls>>

\* Second query, isTeamOwner(memberId); the && skips the third when it is false.
rmIsTeamOwnerMember(r) ==
  /\ Idle
  /\ inflight[r].pc = "isTeamOwnerMember"
  /\ IF isTeamOwner(inflight[r].memberId, inflight[r].teamId)
       THEN inflight' = [inflight EXCEPT ![r].pc = "isTeamOwnerCaller"]
     ELSE rmSelfCheck(r)
  /\ UNCHANGED <<teams, memberships, users, nextTeamId, last, pre, calls>>

\* Third query, isTeamOwner(caller).
rmIsTeamOwnerCaller(r) ==
  /\ Idle
  /\ inflight[r].pc = "isTeamOwnerCaller"
  /\ IF ~isTeamOwner(inflight[r].caller, inflight[r].teamId)
       THEN rmDone(r, UNAUTHORIZED)
     ELSE rmSelfCheck(r)
  /\ UNCHANGED <<teams, memberships, users, nextTeamId, last, pre, calls>>

\* Fourth query, prisma.membership.delete.
rmDelete(r) ==
  LET row == membershipOf(memberships, inflight[r].memberId, inflight[r].teamId)
  IN  /\ Idle
      /\ inflight[r].pc = "delete"
      /\ IF row = {}
           THEN rmDone(r, INTERNAL_SERVER_ERROR) /\ UNCHANGED memberships
         ELSE rmDone(r, OK) /\ memberships' = memberships \ row
      /\ UNCHANGED <<teams, users, nextTeamId, last, pre, calls>>

\* The teams and their members are set up before the first removeMember
\* request arrives; from then on only removeMember requests run.
NoRequestYet == \A r \in Requests : inflight[r].pc = "free"

NextRace ==
  \/ \E u \in UserIds, name \in Names : NoRequestYet /\ CanCall(u) /\ create(u, name)
  \/ \E u \in UserIds, teamId \in TeamIds, str \in InviteStrings, role \in MembershipRole :
       NoRequestYet /\ CanCall(u) /\ inviteMember(u, teamId, str, role)
  \/ Respond
  \/ \E r \in Requests, u \in UserIds, teamId \in TeamIds, memberId \in UserIds :
       rmIsTeamAdmin(r, u, teamId, memberId)
  \/ \E r \in Requests : rmIsTeamOwnerMember(r)
  \/ \E r \in Requests : rmIsTeamOwnerCaller(r)
  \/ \E r \in Requests : rmDelete(r)

SpecRace == Init /\ [][NextRace]_vars

\* ------------------------------------------------------------- the claims
\* The roles a user holds in a team (none, or the one of the membership row).
roleIn(ms, userId, teamId) == {m.role : m \in membershipOf(ms, userId, teamId)}

\* The team a call is about.
CallTeam == IF last.op = "update" THEN last.input.id ELSE last.input.teamId

\* C1: every team that still exists has at least one membership with role
\* OWNER, after any sequence of calls.
C1_EveryTeamHasAnOwner ==
  \A t \in teams : \E m \in memberships : m.teamId = t.id /\ m.role = OWNER

\* C2: a caller whose membership in the team is absent or has role MEMBER
\* gets UNAUTHORIZED from update, delete, inviteMember, changeMemberRole and
\* from removeMember of another user, and the store is left as it was.
C2_OutsidersAndMembersAreRefused ==
  (/\ \/ last.op \in {"update", "delete", "inviteMember", "changeMemberRole"}
      \/ last.op = "removeMember" /\ last.input.memberId # last.caller
   /\ roleIn(pre.memberships, last.caller, CallTeam) \subseteq {MEMBER})
  => last.result = UNAUTHORIZED /\ Store = pre

C2_Witness ==
  /\ last.op = "changeMemberRole"
  /\ roleIn(pre.memberships, last.caller, last.input.teamId) = {MEMBER}
  /\ last.result = UNAUTHORIZED
  /\ Store = pre

\* C3: a call that ends in UNAUTHORIZED, FORBIDDEN, NOT_FOUND or BAD_REQUEST
\* leaves the teams, memberships and users exactly as they were before it.
C3_CodedFailureLeavesStore ==
  last.result \in CodedFailures => Store = pre

C3_Witness ==
  /\ last.op = "create"
  /\ last.result = BAD_REQUEST
  /\ Store = pre

\* C4: a membership gets the role OWNER only by create (the creator, in the
\* new team) or by an inviteMember / changeMemberRole call of a user who is
\* an OWNER of that team when calling; such a call with role OWNER made by
\* an ADMIN ends in UNAUTHORIZED and changes nothing.
C4_OwnerOnlyFromOwner ==
  ~Idle =>
    /\ \A m \in memberships :
         (m.role = OWNER /\ OWNER \notin roleIn(pre.memberships, m.userId, m.teamId))
         => \/ /\ last.op = "create"
               /\ m.userId = last.caller
               /\ m.teamId \notin {t.id : t \in pre.teams}
            \/ /\ last.op \in {"inviteMember", "changeMemberRole"}
               /\ last.input.teamId = m.teamId
               /\ last.input.role = OWNER
               /\ OWNER \in roleIn(pre.memberships, last.caller, m.teamId)
    /\ (/\ last.op \in {"inviteMember", "changeMemberRole"}
        /\ last.input.role = OWNER
        /\ roleIn(pre.memberships, last.caller, last.input.teamId) = {ADMIN})
       => last.result = UNAUTHORIZED /\ Store = pre

C4_Witness ==
  /\ last.op = "changeMemberRole"
  /\ last.input.role = OWNER
  /\ roleIn(pre.memberships, last.caller, last.input.teamId) = {ADMIN}
  /\ last.input.memberId = last.caller
  /\ last.result = UNAUTHORIZED
  /\ roleIn(memberships, last.caller, last.input.teamId) = {ADMIN}

\* The caller held ADMIN or OWNER / held OWNER in the call's team before the call.
preAdmin == roleIn(pre.memberships, last.caller, CallTeam) \cap {ADMIN, OWNER} # {}
preOwner == OWNER \in roleIn(pre.memberships, last.caller, CallTeam)

\* The call got past the two role checks that open inviteMember and changeMemberRole.
PassedRoleChecks == preAdmin /\ (last.input.role = OWNER => preOwner)

\* The stored users a usernameOrEmail names.
inviteesIn(us, str) == {x \in us : x.username = Some(str) \/ x.email = str}

OneMembershipPerPair ==
  \A m1, m2 \in memberships :
    (m1.userId = m2.userId /\ m1.teamId = m2.teamId) => m1 = m2

\* An inviteMember call for a user who had a membership in the team.
ReInvited ==
  IF last.op = "inviteMember"
    THEN {x \in inviteesIn(pre.users, last.input.usernameOrEmail) :
            membershipOf(pre.memberships, x.id, last.input.teamId) # {}}
    ELSE {}

ReInvitedKept ==
  \A x \in ReInvited :
    membershipOf(memberships, x.id, last.input.teamId)
      = membershipOf(pre.memberships, x.id, last.input.teamId)

\* C5 as stated: at most one membership per (user, team); inviteMember for a
\* user who already has a membership in the team ends in FORBIDDEN and leaves
\* that membership as it was.
C5_ReInviteIsForbidden ==
  /\ OneMembershipPerPair
  /\ ReInvited # {} => last.result = FORBIDDEN /\ ReInvitedKept

\* C5 amended: at most one membership per (user, team); inviteMember for a
\* user who already has a membership in the team fails, with FORBIDDEN when
\* the caller passes the handler's role checks and with UNAUTHORIZED when not,
\* and leaves that membership as it was.
C5_ReInviteFails ==
  /\ OneMembershipPerPair
  /\ ReInvited # {} =>
       /\ last.result = IF PassedRoleChecks THEN FORBIDDEN ELSE UNAUTHORIZED
       /\ ReInvitedKept

C5_Witness ==
  /\ ReInvited # {}
  /\ last.result = FORBIDDEN
  /\ \E x \in ReInvited :
       \E m \in membershipOf(memberships, x.id, last.input.teamId) :
         ~m.accepted /\ m.role # last.input.role

TargetWasSoleOwner ==
  /\ last.op = "changeMemberRole"
  /\ {m.userId : m \in {x \in pre.memberships :
                          x.teamId = last.input.teamId /\ x.role = OWNER}}
       = {last.input.memberId}

\* C7: a changeMemberRole call that asks for another role for the sole OWNER
\* of the team leaves that member's role OWNER, whoever calls, and ends in
\* FORBIDDEN for every caller the role checks let through (the owner
\* themselves included).
C7_SoleOwnerKeepsRole ==
  (TargetWasSoleOwner /\ last.input.role # OWNER) =>
    /\ roleIn(memberships, last.input.memberId, last.input.teamId) = {OWNER}
    /\ PassedRoleChecks => last.result = FORBIDDEN

\* A call by an ADMIN of the team on a member who is an OWNER of it.
AdminOnOwner(op) ==
  /\ last.op = op
  /\ roleIn(pre.memberships, last.caller, last.input.teamId) = {ADMIN}
  /\ OWNER \in roleIn(pre.memberships, last.input.memberId, last.input.teamId)

\* Only a team owner can remove another team owner.
OnlyOwnerRemovesOwner ==
  (/\ last.op = "removeMember"
   /\ last.input.memberId # last.caller
   /\ OWNER \in roleIn(pre.memberships, last.input.memberId, last.input.teamId)
   /\ membershipOf(memberships, last.input.memberId, last.input.teamId) = {})
  => preOwner

\* C8 as stated: removeMember by an ADMIN on an OWNER ends in UNAUTHORIZED,
\* changeMemberRole by an ADMIN on an OWNER ends in FORBIDDEN, the store is
\* unchanged in both cases, and only an owner removes another owner.
C8_AdminOnOwnerForbidden ==
  /\ AdminOnOwner("removeMember") => last.result = UNAUTHORIZED /\ Store = pre
  /\ AdminOnOwner("changeMemberRole") => last.result = FORBIDDEN /\ Store = pre
  /\ OnlyOwnerRemovesOwner

\* C8 amended: as C8, but changeMemberRole by an ADMIN on an OWNER ends in
\* UNAUTHORIZED when the requested role is OWNER and in FORBIDDEN otherwise.
C8_AdminOnOwnerRefused ==
  /\ AdminOnOwner("removeMember") => last.result = UNAUTHORIZED /\ Store = pre
  /\ AdminOnOwner("changeMemberRole") =>
       /\ last.result = IF last.input.role = OWNER THEN UNAUTHORIZED ELSE FORBIDDEN
       /\ Store = pre
  /\ OnlyOwnerRemovesOwner

C8_Witness ==
  /\ AdminOnOwner("changeMemberRole")
  /\ last.input.role = MEMBER
  /\ last.result = FORBIDDEN
  /\ Store = pre

\* C9: no two teams have the same slug, and an update whose slug belongs to
\* a different team changes no team.
C9_SlugsAreUnique ==
  /\ \A t1, t2 \in teams : t1.id # t2.id => t1.slug # t2.slug
  /\ (/\ last.op = "update"
      /\ last.input.slug # None
      /\ \E t \in pre.teams : t.id # last.input.id /\ t.slug = last.input.slug)
     => teams = pre.teams

\* C10: a membership made by inviteMember starts with accepted = FALSE; an
\* accepted flag goes from FALSE to TRUE only in an acceptOrLeave(accept)
\* call of the member themselves for that team; acceptOrLeave(leave) removes
\* the caller's membership in that team and no other.
C10_AcceptedOnlyByInvitee ==
  ~Idle =>
    /\ last.op = "inviteMember" =>
         \A m \in memberships :
           membershipOf(pre.memberships, m.userId, m.teamId) = {} => ~m.accepted
    /\ \A m \in memberships :
         (m.accepted /\ \E p \in membershipOf(pre.memberships, m.userId, m.teamId) :
                          ~p.accepted)
         => /\ last.op = "acceptOrLeave"
            /\ last.input.accept
            /\ last.caller = m.userId
            /\ last.input.teamId = m.teamId
    /\ (last.op = "acceptOrLeave" /\ ~last.input.accept) =>
         memberships = pre.memberships
                         \ membershipOf(pre.memberships, last.caller, last.input.teamId)

C10_Witness ==
  /\ last.op = "acceptOrLeave"
  /\ last.input.accept
  /\ \E p \in membershipOf(pre.memberships, last.caller, last.input.teamId) : ~p.accepted
  /\ \E m \in membershipOf(memberships, last.caller, last.input.teamId) : m.accepted
  /\ Cardinality(memberships) > 1

\* C11: removeMember never removes the last OWNER of a team, also when its
\* requests interleave query by query: once no removeMember request is
\* under way, every team has a membership with role OWNER.
C11_RacingRemovalsKeepAnOwner ==
  (\A r \in Requests : inflight[r].pc \in {"free", "done"}) =>
    \A t \in teams : \E m \in memberships : m.teamId = t.id /\ m.role = OWNER
====
